---- MODULE Spec2Model ----
(***************************************************************************)
(* Strand collection of StrandDrawingCanvas (src/strand_drawing_canvas.py). *)
(*                                                                         *)
(* Strand objects are identified by small integers; obj maps an identity   *)
(* to the object's fields, whether or not the object is still in the       *)
(* canvas's list.  Python values are encoded as follows:                   *)
(*   - None is 0 for object references and -1 for the selected index;      *)
(*   - an int set number n is the tuple <<n>>, the str set number "a_b" of *)
(*     a masked strand is the tuple <<a, b>>, so that an int never equals  *)
(*     a str and f"{x}_{y}" is concatenation of tuples;                    *)
(*   - a layer name "p1_p2_..." is the tuple of its integer parts, i.e.    *)
(*     the value of layer_name.split('_'); a part that is not a decimal    *)
(*     integer ("None") is -1, and the empty name "" is the empty tuple;   *)
(*   - the set number None of a strand never given one is the empty tuple; *)
(*   - the dict strand_colors is the sequence of its items in insertion    *)
(*     order.                                                              *)
(* An operation that raises leaves the fields it had already assigned and  *)
(* records the exception in last.raised; last.warned tells that it logged  *)
(* a warning.                                                              *)
(***************************************************************************)
EXTENDS Integers, Sequences, FiniteSets, TLC

\* Number of plain and attached strands drawn in a behaviour (createStrand).
MaxStrands == 3

\* Number of strands attached with attach_strand in a behaviour.
MaxAttaches == 1

\* Number of masked strands added in a behaviour.
MaxMasks == 1

\* Number of importSnapshot calls in a behaviour.
MaxImports == 1

\* Every object ever constructed: those drawn, and their rebuilt copies after
\* each import.
MaxIds == (MaxStrands + MaxAttaches + MaxMasks) * (MaxImports + 1)

None == 0

NoIndex == 0 - 1

Ids == 1..MaxIds

Colors == {"purple", "red"}

\* QColor('purple'), the colour given to a new set (line 210).
DefaultColor == "purple"

\* layer_panel tells whether the canvas holds a layer panel (None until
\* set_layer_panel is called); next_id is the identity of the next object
\* constructed; made counts the strands drawn, the strands attached with
\* attach_strand, the masks added and the imports
\* done
VARIABLES strands, obj, selected_strand, selected_strand_index,
          strand_colors, layer_panel, next_id, made, last

vars == <<strands, obj, selected_strand, selected_strand_index,
          strand_colors, layer_panel, next_id, made, last>>

----------------------------------------------------------------------------
\* Python list and dict primitives

Range(seq) == {seq[i] : i \in DOMAIN seq}

\* x in list
Contains(seq, x) == \E i \in DOMAIN seq : seq[i] = x

\* list.index(x), 1-based; 0 when absent
IndexOf(seq, x) ==
    IF Contains(seq, x)
    THEN CHOOSE i \in DOMAIN seq : seq[i] = x /\ \A j \in 1..(i - 1) : seq[j] # x
    ELSE 0

\* list.remove(x): drops the first occurrence
ListRemove(seq, x) ==
    LET i == IndexOf(seq, x)
    IN IF i = 0 THEN seq
       ELSE SubSeq(seq, 1, i - 1) \o SubSeq(seq, i + 1, Len(seq))

\* key in dict
HasKey(d, k) == \E i \in DOMAIN d : d[i].k = k

\* dict[key]
DictGet(d, k) == d[CHOOSE i \in DOMAIN d : d[i].k = k].v

\* dict[key] = value: overwrites in place or appends a new item
DictPut(d, k, v) ==
    IF HasKey(d, k)
    THEN [i \in DOMAIN d |-> IF d[i].k = k THEN [k |-> k, v |-> v] ELSE d[i]]
    ELSE Append(d, [k |-> k, v |-> v])

DictKeys(d) == {d[i].k : i \in DOMAIN d}

\* isinstance(x, int) / isinstance(x, str) for an encoded set number
IsInt(sn) == Len(sn) = 1

\* a str, or None: neither can be compared with an int
IsStr(sn) == Len(sn) # 1

\* a layer-name part that int() rejects
NotANumber == 0 - 1

\* f"{set_number}": the layer-name parts a set number is printed as
Str(sn) == IF sn = <<>> THEN <<NotANumber>> ELSE sn

SetMax(S) == CHOOSE m \in S : \A x \in S : x <= m

\* number of decimal digits of a natural number
Digits(n) == IF n < 10 THEN 1 ELSE IF n < 100 THEN 2 ELSE IF n < 1000 THEN 3 ELSE 4

Pow10(d) == IF d = 1 THEN 10 ELSE IF d = 2 THEN 100 ELSE IF d = 3 THEN 1000 ELSE 10000

\* int("a_b_..."): Python's int() accepts underscores between digits, so the
\* value is that of the concatenated digits
RECURSIVE IntOfStr(_)
IntOfStr(sn) ==
    IF Len(sn) = 0 THEN 0
    ELSE IntOfStr(SubSeq(sn, 1, Len(sn) - 1)) * Pow10(Digits(sn[Len(sn)])) + sn[Len(sn)]

----------------------------------------------------------------------------
\* Strand objects

NoStrand ==
    [kind |-> "none", set_number |-> <<>>, layer_name |-> <<>>,
     color |-> "none", parent |-> None, attached_strands |-> <<>>,
     has_circles |-> <<FALSE, FALSE>>, side |-> 0,
     first_selected_strand |-> None, second_selected_strand |-> None]

\* Strand(start, end, width, color): a strand as the attach mode hands it over
NewStrand ==
    [NoStrand EXCEPT !.kind = "Strand", !.color = DefaultColor]

\* AttachedStrand(parent, start): start is the parent's start (side 0) or end
\* (side 1)
NewAttachedStrand(p, side) ==
    [NoStrand EXCEPT !.kind = "AttachedStrand", !.color = DefaultColor,
                     !.parent = p, !.side = side]

\* the parts of a layer name inside a longer name: the empty name gives one
\* empty part
NameParts(name) == IF name = <<>> THEN <<NotANumber>> ELSE name

\* MaskedStrand(first, second): the set number is "{first.set_number}_{second.set_number}"
\* and the layer name "{first.layer_name}_{second.layer_name}"
NewMaskedStrand(o, a, b) ==
    [NoStrand EXCEPT !.kind = "MaskedStrand", !.color = o[a].color,
                     !.set_number = Str(o[a].set_number) \o Str(o[b].set_number),
                     !.layer_name = NameParts(o[a].layer_name)
                                    \o NameParts(o[b].layer_name),
                     !.first_selected_strand = a, !.second_selected_strand = b]

IsMasked(o, s) == o[s].kind = "MaskedStrand"

IsAttached(o, s) == o[s].kind = "AttachedStrand"

TypeOK ==
    /\ next_id \in 1..(MaxIds + 1)
    /\ made.strands \in 0..MaxStrands
    /\ made.attaches \in 0..MaxAttaches
    /\ made.masks \in 0..MaxMasks
    /\ made.imports \in 0..MaxImports
    /\ Range(strands) \subseteq 1..(next_id - 1)
    /\ selected_strand \in 0..(next_id - 1)
    /\ selected_strand_index \in NoIndex..MaxIds
    /\ \A i \in DOMAIN strand_colors : strand_colors[i].v \in Colors
    /\ layer_panel \in BOOLEAN

Init ==
    /\ strands = <<>>
    /\ obj = [i \in Ids |-> NoStrand]
    /\ selected_strand = None
    /\ selected_strand_index = NoIndex
    /\ strand_colors = <<>>
    /\ layer_panel = FALSE
    /\ next_id = 1
    /\ made = [strands |-> 0, attaches |-> 0, masks |-> 0, imports |-> 0]
    /\ last = [op |-> "init", strand |-> None, raised |-> "none",
               being_deleted |-> FALSE, warned |-> FALSE]

----------------------------------------------------------------------------
\* The canvas state a handler works on, and the exception it raised, if any

Cur ==
    [strands |-> strands, obj |-> obj, sel |-> selected_strand,
     idx |-> selected_strand_index, colors |-> strand_colors,
     panel |-> layer_panel, raised |-> "none", warned |-> FALSE]

\* set_layer_panel(layer_panel): a panel, or None (FALSE), whose
\* draw_names_requested does not exist
set_layer_panel(st, panel) ==
    IF panel THEN [st EXCEPT !.panel = TRUE]
    ELSE [st EXCEPT !.panel = FALSE, !.raised = "AttributeError"]

\* select_strand(index), index 0-based
select_strand(st, index) ==
    IF 0 <= index /\ index < Len(st.strands)
    THEN [st EXCEPT !.sel = st.strands[index + 1], !.idx = index]
    ELSE [st EXCEPT !.sel = None, !.idx = NoIndex]

\* deselect_all_strands()
deselect_all_strands(st) == [st EXCEPT !.sel = None, !.idx = NoIndex]

\* len([s for s in self.strands if s.set_number == sn])
CountInSet(seq, o, sn) ==
    Cardinality({i \in DOMAIN seq : o[seq[i]].set_number = sn})

\* max(self.strand_colors.keys(), default=0) + 1, for int keys
NextSetNumber(colors) ==
    LET keys == DictKeys(colors)
    IN (IF keys = {} THEN 0 ELSE SetMax({k[1] : k \in keys})) + 1

\* on_strand_created(strand); flag is the strand's is_being_deleted attribute:
\* "absent", "false" or "true"
on_strand_created(st, s, flag) ==
    IF flag = "true" THEN st
    ELSE
    LET o == st.obj
        isAtt == IsAttached(o, s)
        \* max() over keys of which one is a str, or str + 1
        maxRaises == ~isAtt /\ st.sel = None
                     /\ \E k \in DictKeys(st.colors) : IsStr(k)
        set_number == IF isAtt THEN o[o[s].parent].set_number
                      ELSE IF st.sel # None THEN o[st.sel].set_number
                      ELSE <<NextSetNumber(st.colors)>>
    IN IF maxRaises THEN [st EXCEPT !.raised = "TypeError"]
       ELSE
       LET colors1 == IF HasKey(st.colors, set_number) THEN st.colors
                      ELSE DictPut(st.colors, set_number, DefaultColor)
           o1 == [o EXCEPT ![s].set_number = set_number,
                           ![s].color = DictGet(colors1, set_number)]
           strands1 == Append(st.strands, s)
           \* int(strand.set_number) if isinstance(strand.set_number, str)
           n == IF Len(set_number) >= 2 THEN <<IntOfStr(set_number)>> ELSE set_number
           count == CountInSet(strands1, o1, n)
           o2 == IF st.panel
                 THEN [o1 EXCEPT ![s].layer_name = Str(n) \o <<count>>]
                 ELSE o1
           st2 == [st EXCEPT !.strands = strands1, !.obj = o2, !.colors = colors1]
       IN IF st.panel /\ ~HasKey(colors1, n)
          THEN [st2 EXCEPT !.raised = "KeyError"]
          ELSE IF isAtt THEN st2
          ELSE select_strand(st2, Len(strands1) - 1)

\* attach_strand that counts the set before the new strand is appended
attach_strand_CountBefore(st, p, s) ==
    LET o == st.obj
        set_number == o[p].set_number
        o1 == [o EXCEPT ![p].attached_strands = Append(@, s),
                        ![s].parent = p,
                        ![s].set_number = set_number]
        count == CountInSet(st.strands, o1, set_number)
        o2 == [o1 EXCEPT ![s].layer_name = Str(set_number) \o <<count>>]
        o3 == IF HasKey(st.colors, set_number)
              THEN [o2 EXCEPT ![s].color = DictGet(st.colors, set_number)]
              ELSE o2
    IN [st EXCEPT !.strands = Append(st.strands, s), !.obj = o3]

\* attach_strand(parent_strand, new_strand)
attach_strand(st, p, s) ==
    LET o == st.obj
        set_number == o[p].set_number
        o1 == [o EXCEPT ![p].attached_strands = Append(@, s),
                        ![s].parent = p,
                        ![s].set_number = set_number]
        strands1 == Append(st.strands, s)
        count == CountInSet(strands1, o1, set_number)
        o2 == [o1 EXCEPT ![s].layer_name = Str(set_number) \o <<count>>]
        o3 == IF HasKey(st.colors, set_number)
              THEN [o2 EXCEPT ![s].color = DictGet(st.colors, set_number)]
              ELSE o2
    IN [st EXCEPT !.strands = strands1, !.obj = o3]

\* add_strand(strand)
add_strand(st, s) == [st EXCEPT !.strands = Append(@, s)]

----------------------------------------------------------------------------
\* Deletion and renumbering

\* is_related_strand(strand, set_number): what it returns, or the
\* AttributeError of None.layer_name
is_related_strand(o, s, set_number) ==
    IF s = None THEN [raised |-> "AttributeError", value |-> FALSE]
    ELSE LET parts == o[s].layer_name
         IN [raised |-> "none",
             value |-> \/ (Len(parts) >= 1 /\ parts[1] = set_number)
                       \/ (Len(parts) > 2 /\ Contains(parts, set_number))]

\* find_parent_strand(attached_strand): the first strand of the list whose
\* attached_strands holds it, or None
find_parent_strand(seq, o, a) ==
    LET hits == {i \in DOMAIN seq : Contains(o[seq[i]].attached_strands, a)}
    IN IF hits = {} THEN None
       ELSE seq[CHOOSE i \in hits : \A j \in hits : i <= j]

\* strand.start == parent.start (endPoint 0) or strand.start == parent.end
\* (endPoint 1): an attached strand starts at the endpoint of its parent it
\* was attached to
StartCoincides(o, a, p, endPoint) ==
    o[a].parent = p /\ o[a].side = endPoint

\* 1-based rank of position i among the positions of seq with the same set number
RankInSet(seq, o, i) ==
    Cardinality({j \in 1..i : o[seq[j]].set_number = o[seq[i]].set_number})

\* update_layer_names_for_set(set_number)
update_layer_names_for_set(st, set_number) ==
    LET seq == st.strands
        o == st.obj
        pos(s) == IndexOf(seq, s)
    IN [st EXCEPT !.obj =
           [s \in DOMAIN o |->
               IF Contains(seq, s) /\ o[s].set_number = <<set_number>>
               THEN [o[s] EXCEPT !.layer_name = <<set_number, RankInSet(seq, o, pos(s))>>]
               ELSE o[s]]]

\* update_layer_names with one running count for all sets
update_layer_names_OneCounter(st) ==
    LET seq == st.strands
        o == st.obj
    IN [st EXCEPT !.obj =
           [s \in DOMAIN o |->
               IF Contains(seq, s)
               THEN [o[s] EXCEPT !.layer_name =
                        Str(o[s].set_number) \o <<IndexOf(seq, s)>>]
               ELSE o[s]]]

\* update_layer_names()
update_layer_names(st) ==
    LET seq == st.strands
        o == st.obj
        pos(s) == IndexOf(seq, s)
    IN [st EXCEPT !.obj =
           [s \in DOMAIN o |->
               IF Contains(seq, s)
               THEN [o[s] EXCEPT !.layer_name =
                        Str(o[s].set_number) \o <<RankInSet(seq, o, pos(s))>>]
               ELSE o[s]]]

\* {k - 1 if k > deleted else k: v for k, v in d.items()}, items taken from
\* position i on and stored into acc
RECURSIVE RekeyFrom(_, _, _, _)
RekeyFrom(d, i, acc, deleted) ==
    IF i > Len(d) THEN acc
    ELSE LET k == d[i].k[1]
             nk == IF k > deleted THEN k - 1 ELSE k
         IN RekeyFrom(d, i + 1, DictPut(acc, <<nk>>, d[i].v), deleted)

Rekey(d, deleted) == RekeyFrom(d, 1, <<>>, deleted)

\* update_set_numbers(deleted_set_number)
update_set_numbers(st, deleted) ==
    LET seq == st.strands
        o == st.obj
        \* the first strand whose set number is a str: "a_b" > deleted raises
        strs == {i \in DOMAIN seq : IsStr(o[seq[i]].set_number)}
        firstStr == IF strs = {} THEN Len(seq) + 1
                    ELSE CHOOSE i \in strs : \A j \in strs : i <= j
        o1 == [s \in DOMAIN o |->
                  IF /\ Contains(seq, s)
                     /\ IndexOf(seq, s) < firstStr
                     /\ o[s].set_number[1] > deleted
                  THEN [o[s] EXCEPT !.set_number = <<o[s].set_number[1] - 1>>]
                  ELSE o[s]]
        st1 == [st EXCEPT !.obj = o1]
    IN IF strs # {} THEN [st1 EXCEPT !.raised = "TypeError"]
       ELSE IF \E k \in DictKeys(st.colors) : IsStr(k)
       THEN [st1 EXCEPT !.raised = "TypeError"]
       ELSE update_layer_names([st1 EXCEPT !.colors = Rekey(st.colors, deleted)])

\* for s in removed: if s in self.strands: self.strands.remove(s), and the
\* selection is dropped when s was the selected strand
RECURSIVE RemoveEach(_, _)
RemoveEach(st, removed) ==
    IF removed = <<>> THEN st
    ELSE LET s == Head(removed)
             st1 == IF Contains(st.strands, s)
                    THEN LET st0 == [st EXCEPT !.strands = ListRemove(@, s)]
                         IN IF st.sel = s
                            THEN [st0 EXCEPT !.sel = None, !.idx = NoIndex]
                            ELSE st0
                    ELSE st
         IN RemoveEach(st1, Tail(removed))

\* strands_to_remove that takes the whole set whatever the strand's index
StrandsToRemove_WholeSet(seq, o, strand, set_number, is_main_strand) ==
    SelectSeq(seq, LAMBDA s : is_related_strand(o, s, set_number).value)

\* strands_to_remove of remove_strand
StrandsToRemove(seq, o, strand, set_number, is_main_strand) ==
    SelectSeq(seq, LAMBDA s :
        IF is_main_strand THEN is_related_strand(o, s, set_number).value
        ELSE s = strand)

\* the masks of the list that the loop of a main-strand removal asks about
\* their constituents (the elif of line 335)
MasksAsked(seq, o, set_number) ==
    {s \in Range(seq) : /\ ~is_related_strand(o, s, set_number).value
                        /\ IsMasked(o, s)}

\* masks_to_remove that looks at first_selected_strand only
MasksToRemove_FirstOnly(seq, o, strand, set_number, is_main_strand) ==
    LET related(s) == is_related_strand(o, o[s].first_selected_strand, set_number)
    IN IF is_main_strand
          /\ \E s \in MasksAsked(seq, o, set_number) : related(s).raised # "none"
       THEN [raised |-> "AttributeError", masks |-> <<>>]
       ELSE [raised |-> "none",
             masks |-> SelectSeq(seq, LAMBDA s :
                 IF is_main_strand
                 THEN s \in MasksAsked(seq, o, set_number) /\ related(s).value
                 ELSE /\ s # strand
                      /\ IsMasked(o, s)
                      /\ o[s].first_selected_strand = strand)]

\* is_related_strand(first, n) or is_related_strand(second, n) of lines
\* 336-337: the second call is made when the first returns False
ConstituentRelated(o, s, set_number) ==
    LET first == is_related_strand(o, o[s].first_selected_strand, set_number)
    IN IF first.raised # "none" \/ first.value THEN first
       ELSE is_related_strand(o, o[s].second_selected_strand, set_number)

\* masks_to_remove of remove_strand, or the error raised while the lists are
\* collected
MasksToRemove(seq, o, strand, set_number, is_main_strand) ==
    IF is_main_strand
       /\ \E s \in MasksAsked(seq, o, set_number) :
              ConstituentRelated(o, s, set_number).raised # "none"
    THEN [raised |-> "AttributeError", masks |-> <<>>]
    ELSE [raised |-> "none",
          masks |-> SelectSeq(seq, LAMBDA s :
              IF is_main_strand
              THEN /\ s \in MasksAsked(seq, o, set_number)
                   /\ ConstituentRelated(o, s, set_number).value
              ELSE /\ s # strand
                   /\ IsMasked(o, s)
                   /\ \/ o[s].first_selected_strand = strand
                      \/ o[s].second_selected_strand = strand)]

\* the parent's side of remove_strand: unlink the removed attached strand and
\* clear the circle of the endpoint it started at
UnlinkFromParent(st, strand) ==
    LET o == st.obj
        parent == find_parent_strand(st.strands, o, strand)
    IN IF ~IsAttached(o, strand) \/ parent = None THEN st
       ELSE LET o1 == [o EXCEPT ![parent].attached_strands = ListRemove(@, strand)]
                o2 == IF StartCoincides(o, strand, parent, 0)
                      THEN [o1 EXCEPT ![parent].has_circles[1] = FALSE]
                      ELSE IF StartCoincides(o, strand, parent, 1)
                      THEN [o1 EXCEPT ![parent].has_circles[2] = FALSE]
                      ELSE o1
            IN [st EXCEPT !.obj = o2]

\* set_number, strand_number = map(int, strand.layer_name.split('_')[:2])
ParsedSetNumber(o, s) == o[s].layer_name[1]

ParsedStrandNumber(o, s) == o[s].layer_name[2]

IsMainStrand(o, s) == ParsedStrandNumber(o, s) = 1

\* map(int, layer_name.split('_')[:2]) unpacks into two integers
Parses(name) == Len(name) >= 2 /\ name[1] # NotANumber /\ name[2] # NotANumber

\* remove_strand without the membership test of lines 319-321
remove_strand_NoGuard(st, strand) ==
    IF ~Parses(st.obj[strand].layer_name)
    THEN [st EXCEPT !.raised = "ValueError"]
    ELSE
    LET o == st.obj
        set_number == ParsedSetNumber(o, strand)
        is_main_strand == IsMainStrand(o, strand)
        masks == MasksToRemove(st.strands, o, strand, set_number, is_main_strand)
        removed == StrandsToRemove(st.strands, o, strand, set_number, is_main_strand)
                   \o masks.masks
        st1 == RemoveEach(st, removed)
        st2 == UnlinkFromParent(st1, strand)
    IN IF masks.raised # "none"
       THEN [st EXCEPT !.raised = masks.raised]
       ELSE IF ~is_main_strand
       THEN update_layer_names_for_set(st2, set_number)
       ELSE update_set_numbers(st2, set_number)

\* remove_strand(strand)
remove_strand(st, strand) ==
    IF ~Contains(st.strands, strand) THEN [st EXCEPT !.warned = TRUE]
    ELSE IF ~Parses(st.obj[strand].layer_name)
    THEN [st EXCEPT !.raised = "ValueError"]
    ELSE
    LET o == st.obj
        set_number == ParsedSetNumber(o, strand)
        is_main_strand == IsMainStrand(o, strand)
        masks == MasksToRemove(st.strands, o, strand, set_number, is_main_strand)
        removed == StrandsToRemove(st.strands, o, strand, set_number, is_main_strand)
                   \o masks.masks
        st1 == RemoveEach(st, removed)
        st2 == UnlinkFromParent(st1, strand)
    IN IF masks.raised # "none"
       THEN [st EXCEPT !.raised = masks.raised]
       ELSE IF ~is_main_strand
       THEN update_layer_names_for_set(st2, set_number)
       ELSE update_set_numbers(st2, set_number)

\* remove_attached_strands(parent_strand): the attached strands that are in
\* the list are removed with all below them, and attached_strands is cleared
\* in every strand visited
RECURSIVE remove_attached_strands(_, _)
RECURSIVE RemoveAttachedEach(_, _)
RemoveAttachedEach(st, attached) ==
    IF attached = <<>> THEN st
    ELSE LET a == Head(attached)
             st1 == IF Contains(st.strands, a)
                    THEN remove_attached_strands(
                             [st EXCEPT !.strands = ListRemove(@, a)], a)
                    ELSE st
         IN RemoveAttachedEach(st1, Tail(attached))

remove_attached_strands(st, parent_strand) ==
    LET st1 == RemoveAttachedEach(st, st.obj[parent_strand].attached_strands)
    IN [st1 EXCEPT !.obj[parent_strand].attached_strands = <<>>]

----------------------------------------------------------------------------
\* Colour, z-order, clear and snapshot

\* the strands reachable from s through attached_strands
RECURSIVE Descendants(_, _)
Descendants(o, s) ==
    LET kids == Range(o[s].attached_strands)
    IN kids \cup UNION {Descendants(o, k) : k \in kids}

\* update_color_for_set that passes over the masked strands
update_color_for_set_NoMasks(st, set_number, color) ==
    LET o == st.obj
        roots == {s \in Range(st.strands) :
                     ~IsMasked(o, s) /\ o[s].set_number = <<set_number>>}
        colored == roots \cup UNION {Descendants(o, r) : r \in roots}
    IN [st EXCEPT !.colors = DictPut(@, <<set_number>>, color),
                  !.obj = [s \in DOMAIN o |->
                              IF s \in colored THEN [o[s] EXCEPT !.color = color]
                              ELSE o[s]]]

\* update_color_for_set(set_number, color) with update_attached_strands_color
update_color_for_set(st, set_number, color) ==
    LET o == st.obj
        roots == {s \in Range(st.strands) :
                     IF IsMasked(o, s)
                     THEN Len(o[s].set_number) >= 2 /\ o[s].set_number[1] = set_number
                     ELSE o[s].set_number = <<set_number>>}
        colored == roots \cup UNION {Descendants(o, r) : r \in roots}
    IN [st EXCEPT !.colors = DictPut(@, <<set_number>>, color),
                  !.obj = [s \in DOMAIN o |->
                              IF s \in colored THEN [o[s] EXCEPT !.color = color]
                              ELSE o[s]]]

\* move_strand_to_front that swaps the strand with the last one
move_strand_to_front_Swap(st, s) ==
    IF Contains(st.strands, s)
    THEN LET i == IndexOf(st.strands, s)
             n == Len(st.strands)
         IN [st EXCEPT !.strands = [@ EXCEPT ![i] = st.strands[n], ![n] = s]]
    ELSE st

\* move_strand_to_front(strand)
move_strand_to_front(st, s) ==
    IF Contains(st.strands, s)
    THEN [st EXCEPT !.strands = Append(ListRemove(@, s), s)]
    ELSE st

\* move_strand_to_back that inserts at index 1
move_strand_to_back_InsertSecond(st, s) ==
    IF Contains(st.strands, s)
    THEN LET rest == ListRemove(st.strands, s)
         IN [st EXCEPT !.strands =
                IF rest = <<>> THEN <<s>> ELSE <<Head(rest), s>> \o Tail(rest)]
    ELSE st

\* move_strand_to_back(strand)
move_strand_to_back(st, s) ==
    IF Contains(st.strands, s)
    THEN [st EXCEPT !.strands = <<s>> \o ListRemove(@, s)]
    ELSE st

\* clear_strands()
clear_strands(st) == [st EXCEPT !.strands = <<>>, !.idx = NoIndex]

\* strand.to_dict(): the fields of the strand, its references to other strands
\* written as 1-based positions in the exported list (0: not in the list)
to_dict(seq, o, s) ==
    [o[s] EXCEPT !.parent = IndexOf(seq, @),
                 !.first_selected_strand = IndexOf(seq, @),
                 !.second_selected_strand = IndexOf(seq, @),
                 !.attached_strands =
                     LET kept == SelectSeq(@, LAMBDA a : Contains(seq, a))
                     IN [i \in DOMAIN kept |-> IndexOf(seq, kept[i])]]

\* export_to_data()
export_to_data(st) ==
    [i \in DOMAIN st.strands |-> to_dict(st.strands, st.obj, st.strands[i])]

\* Strand.from_dict(strand_data): a new object; position r of the imported
\* list is the object base + r
from_dict(rec, base) ==
    LET ref(r) == IF r = 0 THEN None ELSE base + r
    IN [rec EXCEPT !.parent = ref(@),
                   !.first_selected_strand = ref(@),
                   !.second_selected_strand = ref(@),
                   !.attached_strands = [i \in DOMAIN @ |-> ref(@[i])]]

\* import_from_data(data); the objects built are base + 1 .. base + len(data)
import_from_data(st, data, base) ==
    LET st0 == clear_strands(st)
    IN [st0 EXCEPT !.strands = [i \in DOMAIN data |-> base + i],
                   !.obj = [s \in DOMAIN st.obj |->
                               IF s > base /\ s <= base + Len(data)
                               THEN from_dict(data[s - base], base)
                               ELSE st.obj[s]]]

----------------------------------------------------------------------------
\* Operations

Commit(st, op, s, flag) ==
    /\ strands' = st.strands
    /\ obj' = st.obj
    /\ selected_strand' = st.sel
    /\ selected_strand_index' = st.idx
    /\ strand_colors' = st.colors
    /\ layer_panel' = st.panel
    /\ last' = [op |-> op, strand |-> s, raised |-> st.raised,
                being_deleted |-> (flag = "true"), warned |-> st.warned]

Flags == {"absent", "false", "true"}

\* strands an attach mode can attach to: the strands of a numbered set
Attachable == {p \in Range(strands) : ~IsMasked(obj, p) /\ IsInt(obj[p].set_number)}

\* an endpoint of p that carries no attached strand yet
FreeEnd(p, side) == ~obj[p].has_circles[side + 1]

\* the attach mode draws the circle of the endpoint a strand is attached to
MarkCircle(o, p, side) == [o EXCEPT ![p].has_circles[side + 1] = TRUE]

\* createStrand of a plain strand; a strand flagged is_being_deleted is not
\* referenced by the canvas afterwards, so its identity is not used up
CreateStrand(flag) ==
    /\ made.strands < MaxStrands
    /\ LET s == next_id
           st == IF flag = "true" THEN Cur ELSE [Cur EXCEPT !.obj[s] = NewStrand]
       IN Commit(on_strand_created(st, s, flag), "create", s, flag)
    /\ next_id' = IF flag = "true" THEN next_id ELSE next_id + 1
    /\ made' = IF flag = "true" THEN made ELSE [made EXCEPT !.strands = @ + 1]

\* createStrand of an AttachedStrand, which the attach mode has linked to its
\* parent
CreateAttachedStrand(p, side) ==
    /\ made.strands < MaxStrands
    /\ p \in Attachable
    /\ FreeEnd(p, side)
    /\ LET s == next_id
           o1 == [MarkCircle(obj, p, side) EXCEPT ![s] = NewAttachedStrand(p, side),
                                                  ![p].attached_strands = Append(@, s)]
           st == [Cur EXCEPT !.obj = o1]
       IN Commit(on_strand_created(st, s, "absent"), "create", s, "absent")
    /\ next_id' = next_id + 1
    /\ made' = [made EXCEPT !.strands = @ + 1]

\* attach(parentStrand, newStrand)
Attach(p, side) ==
    /\ made.attaches < MaxAttaches
    /\ p \in Attachable
    /\ FreeEnd(p, side)
    /\ LET s == next_id
           o1 == [MarkCircle(obj, p, side) EXCEPT ![s] = NewAttachedStrand(None, side)]
           st == [Cur EXCEPT !.obj = o1]
       IN Commit(attach_strand(st, p, s), "attach", s, "absent")
    /\ next_id' = next_id + 1
    /\ made' = [made EXCEPT !.attaches = @ + 1]

\* a mask of two strands of the list is added with add_strand
AddMask(a, b) ==
    /\ made.masks < MaxMasks
    /\ a \in Attachable /\ b \in Attachable /\ a # b
    /\ LET s == next_id
           st == [Cur EXCEPT !.obj[s] = NewMaskedStrand(obj, a, b)]
       IN Commit(add_strand(st, s), "mask", s, "absent")
    /\ next_id' = next_id + 1
    /\ made' = [made EXCEPT !.masks = @ + 1]

\* add_strand of a strand that was given no layer name and no set number
AddUnnamedStrand ==
    /\ made.strands < MaxStrands
    /\ LET s == next_id
           st == [Cur EXCEPT !.obj[s] = NewStrand]
       IN Commit(add_strand(st, s), "add", s, "absent")
    /\ next_id' = next_id + 1
    /\ made' = [made EXCEPT !.strands = @ + 1]

SetLayerPanel(panel) ==
    /\ Commit(set_layer_panel(Cur, panel), "panel", None, "absent")
    /\ UNCHANGED <<next_id, made>>

RemoveAttachedStrands(p) ==
    /\ p \in 1..(next_id - 1)
    /\ Commit(remove_attached_strands(Cur, p), "remove_attached", None, "absent")
    /\ UNCHANGED <<next_id, made>>

Select(index) ==
    /\ index <= Len(strands)
    /\ Commit(select_strand(Cur, index), "select", None, "absent")
    /\ UNCHANGED <<next_id, made>>

Deselect ==
    /\ Commit(deselect_all_strands(Cur), "deselect", None, "absent")
    /\ UNCHANGED <<next_id, made>>

RemoveStrand(s) ==
    /\ s \in 1..(next_id - 1)
    /\ Commit(remove_strand(Cur, s), "remove", s, "absent")
    /\ UNCHANGED <<next_id, made>>

MoveToFront(s) ==
    /\ s \in 1..(next_id - 1)
    /\ Commit(move_strand_to_front(Cur, s), "front", None, "absent")
    /\ UNCHANGED <<next_id, made>>

MoveToBack(s) ==
    /\ s \in 1..(next_id - 1)
    /\ Commit(move_strand_to_back(Cur, s), "back", None, "absent")
    /\ UNCHANGED <<next_id, made>>

Clear ==
    /\ Commit(clear_strands(Cur), "clear", None, "absent")
    /\ UNCHANGED <<next_id, made>>

\* importSnapshot(exportSnapshot())
ImportSnapshot ==
    /\ made.imports < MaxImports
    /\ Commit(import_from_data(Cur, export_to_data(Cur), next_id - 1),
              "import", None, "absent")
    /\ next_id' = next_id + Len(strands)
    /\ made' = [made EXCEPT !.imports = @ + 1]

\* renumberLayerNames()
UpdateLayerNames ==
    /\ Commit(update_layer_names(Cur), "rename", None, "absent")
    /\ UNCHANGED <<next_id, made>>

\* the sets the layer panel shows a colour button for
ColorableSets == {k[1] : k \in {x \in DictKeys(strand_colors) : IsInt(x)}}

SetSetColor(n, c) ==
    /\ n \in ColorableSets
    /\ Commit(update_color_for_set(Cur, n, c), "color", None, "absent")
    /\ UNCHANGED <<next_id, made>>

\* set numbers a panel can name
SetNumbers == 1..MaxIds

\* createStrand and removeStrand with selection changes, on a canvas that is
\* given its layer panel at some time
NextDraw ==
    \/ SetLayerPanel(TRUE)
    \/ \E f \in Flags : CreateStrand(f)
    \/ \E p \in Ids, side \in {0, 1} : CreateAttachedStrand(p, side)
    \/ \E s \in Ids : RemoveStrand(s)
    \/ \E i \in 0..MaxIds : Select(i)
    \/ Deselect

\* the above with attach
NextCreateRemove ==
    \/ NextDraw
    \/ \E p \in Ids, side \in {0, 1} : Attach(p, side)

SpecCreateRemove == Init /\ [][NextCreateRemove]_vars

\* createStrand and removeStrand with z-order changes, the selection being
\* what these leave
NextZOrder ==
    \/ SetLayerPanel(TRUE)
    \/ \E f \in Flags : CreateStrand(f)
    \/ \E p \in Ids, side \in {0, 1} : CreateAttachedStrand(p, side)
    \/ \E s \in Ids : RemoveStrand(s)
    \/ \E s \in Ids : MoveToFront(s)
    \/ \E s \in Ids : MoveToBack(s)

SpecZOrder == Init /\ [][NextZOrder]_vars

\* the above with attach and deselection
NextOrder ==
    \/ NextZOrder
    \/ \E p \in Ids, side \in {0, 1} : Attach(p, side)
    \/ Deselect

SpecOrder == Init /\ [][NextOrder]_vars

\* createStrand, removeStrand, z-order changes and deselection with masks
NextMask ==
    \/ NextZOrder
    \/ Deselect
    \/ \E a \in Ids, b \in Ids : AddMask(a, b)

SpecMask == Init /\ [][NextMask]_vars

\* createStrand, removeStrand, selection and z-order changes with clear,
\* remove_attached_strands and a set_layer_panel that is given no panel
NextReachable ==
    \/ NextDraw
    \/ \E s \in Ids : MoveToFront(s)
    \/ \E s \in Ids : MoveToBack(s)
    \/ Clear
    \/ \E p \in Ids : RemoveAttachedStrands(p)
    \/ SetLayerPanel(FALSE)

SpecReachable == Init /\ [][NextReachable]_vars

Next ==
    \/ NextReachable
    \/ \E p \in Ids, side \in {0, 1} : Attach(p, side)
    \/ \E a \in Ids, b \in Ids : AddMask(a, b)
    \/ AddUnnamedStrand
    \/ UpdateLayerNames
    \/ \E n \in SetNumbers, c \in Colors : SetSetColor(n, c)
    \/ ImportSnapshot

Spec == Init /\ [][Next]_vars

\* createStrand, removeStrand and selection with clear and importSnapshot
NextSnapshot ==
    \/ NextDraw
    \/ Clear
    \/ ImportSnapshot

SpecSnapshot == Init /\ [][NextSnapshot]_vars

\* createStrand, attach, removeStrand and deselection with setSetColor
NextColor ==
    \/ SetLayerPanel(TRUE)
    \/ \E f \in Flags : CreateStrand(f)
    \/ \E p \in Ids, side \in {0, 1} : CreateAttachedStrand(p, side)
    \/ \E p \in Ids, side \in {0, 1} : Attach(p, side)
    \/ \E s \in Ids : RemoveStrand(s)
    \/ Deselect
    \/ \E n \in SetNumbers, c \in Colors : SetSetColor(n, c)

SpecColor == Init /\ [][NextColor]_vars

\* createStrand, attach, removeStrand and selection with add_strand of
\* unnamed strands
NextAdd ==
    \/ NextCreateRemove
    \/ AddUnnamedStrand

SpecAdd == Init /\ [][NextAdd]_vars

\* createStrand, removeStrand and z-order changes with renumberLayerNames
NextRenumber ==
    \/ NextZOrder
    \/ UpdateLayerNames

SpecRenumber == Init /\ [][NextRenumber]_vars

\* createStrand, removeStrand and deselection with setSetColor and masks
NextMaskColor ==
    \/ SetLayerPanel(TRUE)
    \/ \E f \in Flags : CreateStrand(f)
    \/ \E p \in Ids, side \in {0, 1} : CreateAttachedStrand(p, side)
    \/ \E s \in Ids : RemoveStrand(s)
    \/ Deselect
    \/ \E n \in SetNumbers, c \in Colors : SetSetColor(n, c)
    \/ \E a \in Ids, b \in Ids : AddMask(a, b)

SpecMaskColor == Init /\ [][NextMaskColor]_vars

----------------------------------------------------------------------------
\* Properties

InCollection(s) == Contains(strands, s)

\* the set numbers in use, ints and strs alike
SetNumbersInUse == {obj[s].set_number : s \in Range(strands)}

\* C1. Set-number density: the distinct set numbers of the strands in the list
\* are exactly 1..k for some k >= 0.
C1_SetNumberDensity ==
    \E k \in 0..MaxIds : SetNumbersInUse = {<<i>> : i \in 1..k}

\* C2. Layer-name density: every strand of the list is named
\* "{set_number}_{index}", and the indices used in a set of c strands are
\* exactly 1..c.
C2_LayerNameDensity ==
    /\ \A s \in Range(strands) :
          /\ IsInt(obj[s].set_number)
          /\ Len(obj[s].layer_name) = 2
          /\ obj[s].layer_name[1] = obj[s].set_number[1]
    /\ \A sn \in SetNumbersInUse :
          LET members == {s \in Range(strands) : obj[s].set_number = sn}
          IN /\ {obj[s].layer_name[2] : s \in members} = 1..Cardinality(members)
             /\ \A s, t \in members :
                   obj[s].layer_name = obj[t].layer_name => s = t

\* C3. No dangling masks: after removeStrand every masked strand of the list
\* has both its constituents in the list.
C3_NoDanglingMasks ==
    last.op = "remove" =>
        \A m \in Range(strands) :
            IsMasked(obj, m) =>
                /\ InCollection(obj[m].first_selected_strand)
                /\ InCollection(obj[m].second_selected_strand)

\* a deletion that took a strand out and left a mask in the list
C3_Witness ==
    /\ last.op = "remove"
    /\ ~InCollection(last.strand)
    /\ \E m \in Range(strands) : IsMasked(obj, m)

\* C4. Selection membership: the selected strand is none or a strand of the list.
C4_SelectionMembership ==
    selected_strand = None \/ InCollection(selected_strand)

\* a removeStrand(s) step on a strand of the list named "n_1"
MainRemoval(s) ==
    /\ last'.op = "remove" /\ last'.strand = s
    /\ InCollection(s)
    /\ Len(obj[s].layer_name) = 2
    /\ obj[s].layer_name[2] = 1

\* a removeStrand(s) step on a strand of the list whose layer-name index is not 1
NonMainRemoval(s) ==
    /\ last'.op = "remove" /\ last'.strand = s
    /\ InCollection(s)
    /\ Parses(obj[s].layer_name)
    /\ obj[s].layer_name[2] # 1

\* C5. Main-strand deletion cascade: removeStrand on the strand named "n_1"
\* removes every strand of set n and every mask referencing one of them; a
\* remaining strand of a set above n moves down by one set, one of a set below
\* n keeps its set number.
C5_MainDeletionCascade ==
    [][\A s \in Ids : MainRemoval(s) =>
        LET n == obj[s].layer_name[1]
        IN /\ \A t \in Range(strands) :
                 obj[t].set_number = <<n>> => ~Contains(strands', t)
           /\ \A m \in Range(strands) :
                 (/\ IsMasked(obj, m)
                  /\ \/ obj[obj[m].first_selected_strand].set_number = <<n>>
                     \/ obj[obj[m].second_selected_strand].set_number = <<n>>)
                 => ~Contains(strands', m)
           /\ \A t \in Range(strands') :
                 IsInt(obj[t].set_number) =>
                     LET k == obj[t].set_number[1]
                     IN /\ k > n => obj'[t].set_number = <<k - 1>>
                        /\ k < n => obj'[t].set_number = <<k>>
      ]_vars

IntKeys(d) == {k[1] : k \in {x \in DictKeys(d) : IsInt(x)}}

\* C6. Colour-map re-keying: after removeStrand deleted the main strand of set
\* n, the colour of every former key k > n is stored under k - 1, the entries
\* with key < n are unchanged, and no other key is left (the entry of set n is
\* dropped, also when n was the highest key).
C6_ColorRekey ==
    [][\A s \in Ids : MainRemoval(s) =>
        LET n == obj[s].layer_name[1]
            old == IntKeys(strand_colors)
        IN /\ \A k \in old : k < n =>
                 /\ HasKey(strand_colors', <<k>>)
                 /\ DictGet(strand_colors', <<k>>) = DictGet(strand_colors, <<k>>)
           /\ \A k \in old : k > n =>
                 /\ HasKey(strand_colors', <<k - 1>>)
                 /\ DictGet(strand_colors', <<k - 1>>) = DictGet(strand_colors, <<k>>)
           /\ DictKeys(strand_colors') =
                 {<<k>> : k \in {x \in old : x < n}}
                 \cup {<<k - 1>> : k \in {x \in old : x > n}}
      ]_vars

\* the masks of the list that reference s
MasksOf(s) ==
    {m \in Range(strands) :
        /\ IsMasked(obj, m)
        /\ obj[m].first_selected_strand = s \/ obj[m].second_selected_strand = s}

\* C7. Non-main deletion is local: removeStrand on a strand named "n_i", i # 1,
\* removes that strand and the masks referencing it and nothing else, keeps
\* the order of the others, leaves the set number and layer name of the
\* strands of other sets and the colour mapping unchanged, and names the
\* remaining strands of set n "n_1", "n_2", ... in list order.
C7_NonMainDeletionLocal ==
    [][\A s \in Ids : NonMainRemoval(s) =>
        LET n == obj[s].layer_name[1]
            gone == {s} \cup MasksOf(s)
        IN /\ strands' = SelectSeq(strands, LAMBDA t : t \notin gone)
           /\ strand_colors' = strand_colors
           /\ \A t \in Range(strands') :
                 /\ obj'[t].set_number = obj[t].set_number
                 /\ IF obj[t].set_number = <<n>>
                    THEN obj'[t].layer_name =
                            <<n, Cardinality({j \in 1..IndexOf(strands', t) :
                                     obj[strands'[j]].set_number = <<n>>})>>
                    ELSE obj'[t].layer_name = obj[t].layer_name
      ]_vars

\* a non-main strand was taken out of a set that keeps other strands, next to
\* strands of another set
C7_Witness ==
    /\ last.op = "remove" /\ last.raised = "none"
    /\ ~InCollection(last.strand)
    /\ Len(obj[last.strand].layer_name) = 2
    /\ obj[last.strand].layer_name[2] # 1
    /\ \E t, u \in Range(strands) :
          /\ obj[t].set_number = obj[last.strand].set_number
          /\ IsInt(obj[u].set_number)
          /\ obj[u].set_number # obj[t].set_number

\* each attached strand of the list is once in the attached_strands of its parent
AttachedOnce ==
    \A a \in Range(strands) :
        (IsAttached(obj, a) /\ obj[a].parent # None) =>
            Cardinality({i \in DOMAIN obj[obj[a].parent].attached_strands :
                            obj[obj[a].parent].attached_strands[i] = a}) = 1

\* removeStrand(a) of an attached strand unlinks it from its parent and clears
\* the circle of the endpoint it started at
RemovalUnlinks ==
    \A a \in Ids :
        (/\ last'.op = "remove" /\ last'.strand = a
         /\ InCollection(a)
         /\ IsAttached(obj, a) /\ obj[a].parent # None)
        => LET p == obj[a].parent
           IN /\ ~Contains(obj'[p].attached_strands, a)
              /\ ~obj'[p].has_circles[obj[a].side + 1]

\* C8. Attachment symmetry: every attached strand of the list is exactly once
\* in its parent's attached_strands, and removing it takes it out of that
\* sequence and clears the parent's circle flag of the endpoint it started at.
C8_AttachmentSymmetry == [][AttachedOnce' /\ RemovalUnlinks]_vars

\* max(set_number of the strands of the list), 0 for an empty list
MaxSetNumberInCollection ==
    LET ns == {obj[t].set_number[1] :
                  t \in {x \in Range(strands) : IsInt(obj[x].set_number)}}
    IN IF ns = {} THEN 0 ELSE SetMax(ns)

\* C9. createStrand set assignment: an attached strand gets its parent's set
\* number; otherwise the selected strand's; otherwise, with no selection, the
\* maximum set number of the strands of the list plus 1 (1 for an empty list).
C9_SetAssignment ==
    [][(last'.op = "create" /\ ~last'.being_deleted /\ last'.raised = "none") =>
        LET s == last'.strand
        IN IF IsAttached(obj', s)
           THEN obj'[s].set_number = obj[obj'[s].parent].set_number
           ELSE IF selected_strand # None
           THEN obj'[s].set_number = obj[selected_strand].set_number
           ELSE obj'[s].set_number = <<MaxSetNumberInCollection + 1>>
      ]_vars

\* C10. Being-deleted flag: createStrand of a strand flagged is_being_deleted
\* still appends it to the list and gives it its set number, set colour and
\* layer name.
C10_BeingDeletedBookkeeping ==
    [][(last'.op = "create" /\ last'.being_deleted) =>
        LET s == last'.strand
        IN /\ strands' = Append(strands, s)
           /\ obj'[s].set_number # <<>>
           /\ HasKey(strand_colors', obj'[s].set_number)
           /\ obj'[s].color = DictGet(strand_colors', obj'[s].set_number)
           /\ obj'[s].layer_name # <<>>
      ]_vars

\* the closure of the set S of strands under attached_strands
RECURSIVE AttachedClosure(_, _)
AttachedClosure(o, S) ==
    LET more == S \cup UNION {Range(o[s].attached_strands) : s \in S}
    IN IF more = S THEN S ELSE AttachedClosure(o, more)

\* the strands of the list with set number n, and all strands below them
ReachedFromSet(n) ==
    AttachedClosure(obj, {s \in Range(strands) : obj[s].set_number = <<n>>})

\* the masks of the list whose set number is "n_...", and all strands below them
ReachedFromMasksOfSet(n) ==
    AttachedClosure(obj, {m \in Range(strands) :
                              /\ IsMasked(obj, m)
                              /\ Len(obj[m].set_number) >= 2
                              /\ obj[m].set_number[1] = n})

\* C11. Colour propagation reaches descendants: after setSetColor(n, c) the
\* stored colour of set n is c, every strand of the list with set number n and
\* every strand reachable from one through attached_strands has colour c, and
\* every other strand of the list keeps its colour.
C11_ColorPropagation ==
    [][\A n \in SetNumbers, c \in Colors : SetSetColor(n, c) =>
        /\ HasKey(strand_colors', <<n>>)
        /\ DictGet(strand_colors', <<n>>) = c
        /\ \A s \in ReachedFromSet(n) : obj'[s].color = c
        /\ \A s \in Range(strands) \ ReachedFromSet(n) :
              obj'[s].color = obj[s].color
      ]_vars

\* C11 as amended: as C11, and the masked strands of the list whose set number
\* starts with "n_" take colour c as well; the strands of the list that are
\* neither of these keep their colour.
C11_ColorPropagationWithMasks ==
    [][\A n \in SetNumbers, c \in Colors : SetSetColor(n, c) =>
        /\ HasKey(strand_colors', <<n>>)
        /\ DictGet(strand_colors', <<n>>) = c
        /\ \A s \in ReachedFromSet(n) \cup ReachedFromMasksOfSet(n) :
              obj'[s].color = c
        /\ \A s \in Range(strands) \ (ReachedFromSet(n) \cup ReachedFromMasksOfSet(n)) :
              obj'[s].color = obj[s].color
      ]_vars

\* a set was recoloured whose main strand has a strand attached to a strand
\* attached to it, and a mask of two of them
C11_Witness ==
    /\ last.op = "color"
    /\ \E a, p, g, m \in Range(strands) :
          /\ Contains(obj[a].attached_strands, p)
          /\ Contains(obj[p].attached_strands, g)
          /\ IsMasked(obj, m)
          /\ obj[a].color = "red" /\ obj[p].color = "red"
          /\ obj[g].color = "red" /\ obj[m].color = "red"

\* a removeStrand(s) step on a strand of the list whose layer name does not
\* parse into a set number and an index
MalformedRemoval(s) ==
    /\ last'.op = "remove" /\ last'.strand = s
    /\ InCollection(s)
    /\ ~Parses(obj[s].layer_name)

\* C12. Malformed layer name on deletion: removeStrand on a strand of the list
\* whose layer name does not parse does not raise, and removes that strand and
\* the masks referencing it and nothing else.
C12_MalformedLayerName ==
    [][\A s \in Ids : MalformedRemoval(s) =>
        /\ last'.raised = "none"
        /\ strands' = SelectSeq(strands, LAMBDA t : t \notin ({s} \cup MasksOf(s)))
      ]_vars

\* a removeStrand(s) step on a strand that is not in the list
AbsentRemoval(s) ==
    /\ last'.op = "remove" /\ last'.strand = s
    /\ ~InCollection(s)

\* C13. Removing an absent strand is a no-op: it does not raise and leaves the
\* list, every strand's set number, layer name, attached_strands and
\* has_circles, the colour mapping and the selection unchanged.
C13_AbsentRemovalNoOp ==
    [][\A s \in Ids : AbsentRemoval(s) =>
        /\ last'.raised = "none"
        /\ strands' = strands
        /\ \A t \in Ids :
              /\ obj'[t].set_number = obj[t].set_number
              /\ obj'[t].layer_name = obj[t].layer_name
              /\ obj'[t].attached_strands = obj[t].attached_strands
              /\ obj'[t].has_circles = obj[t].has_circles
        /\ strand_colors' = strand_colors
        /\ selected_strand' = selected_strand
        /\ selected_strand_index' = selected_strand_index
      ]_vars

\* removeStrand was called on a removed main strand while the list held
\* strands of a higher set
C13_Witness ==
    /\ last.op = "remove" /\ last.warned
    /\ ~InCollection(last.strand)
    /\ obj[last.strand].layer_name = <<1, 1>>
    /\ \E t \in Range(strands) : obj[t].set_number = <<2>>

\* C14. Snapshot round-trip: importSnapshot(exportSnapshot()) yields a list of
\* the same strands in the same order (equal records, references taken as
\* positions), the same colour mapping, and a selection that is cleared or is
\* the strand rebuilt from the one selected before.
C14_SnapshotRoundTrip ==
    [][last'.op = "import" =>
        /\ Len(strands') = Len(strands)
        /\ \A i \in DOMAIN strands :
              to_dict(strands', obj', strands'[i]) = to_dict(strands, obj, strands[i])
        /\ strand_colors' = strand_colors
        /\ \/ selected_strand' = None
           \/ /\ InCollection(selected_strand)
              /\ Contains(strands', selected_strand')
              /\ IndexOf(strands', selected_strand') = IndexOf(strands, selected_strand)
      ]_vars

\* C15. attach bookkeeping: attach(p, s) for p in the list appends s to
\* p.attached_strands, sets s.parent to p and s.set_number to p's, appends s
\* to the list, names it "{set_number}_{number of strands now in the set}",
\* gives it the stored colour of the set, and changes no other strand's set
\* number, layer name or position.
C15_AttachBookkeeping ==
    [][\A p \in Ids, side \in {0, 1} : Attach(p, side) =>
        LET s == next_id
            sn == obj[p].set_number
        IN /\ obj'[p].attached_strands = Append(obj[p].attached_strands, s)
           /\ obj'[s].parent = p
           /\ obj'[s].set_number = sn
           /\ strands' = Append(strands, s)
           /\ obj'[s].layer_name =
                 sn \o <<Cardinality({i \in DOMAIN strands' :
                                         obj'[strands'[i]].set_number = sn})>>
           /\ HasKey(strand_colors, sn)
           /\ obj'[s].color = DictGet(strand_colors, sn)
           /\ \A t \in Range(strands) :
                 /\ obj'[t].set_number = obj[t].set_number
                 /\ obj'[t].layer_name = obj[t].layer_name
      ]_vars

\* a strand was attached to a strand of a recoloured set that held two strands
C15_Witness ==
    /\ last.op = "attach"
    /\ InCollection(last.strand)
    /\ obj[last.strand].layer_name[2] = 3
    /\ obj[last.strand].color = "red"

\* the list without s, the others in their order
Without(seq, s) == SelectSeq(seq, LAMBDA t : t # s)

\* C16. Z-order relocation: moveToFront(s) / moveToBack(s) with s in the list
\* yields the list with s moved to the last / first position, the others in
\* their relative order and the same strands; with s absent the list is
\* unchanged.
C16_ZOrderRelocation ==
    [][\A s \in Ids :
        /\ MoveToFront(s) =>
               IF InCollection(s)
               THEN /\ strands' = Append(Without(strands, s), s)
                    /\ Len(strands') = Len(strands)
               ELSE strands' = strands
        /\ MoveToBack(s) =>
               IF InCollection(s)
               THEN /\ strands' = <<s>> \o Without(strands, s)
                    /\ Len(strands') = Len(strands)
               ELSE strands' = strands
      ]_vars

\* the first of three strands was moved to the front
C16_Witness ==
    /\ last.op = "front"
    /\ Len(strands) = 3
    /\ strands[3] < strands[1]
    /\ strands[1] < strands[2]

\* C17. Z-order idempotence: moveToFront of the strand that is already last
\* (moveToBack of the one already first) leaves the list unchanged, so that a
\* second moveToFront(s) (moveToBack(s)) gives the list the first one gave.
C17_ZOrderIdempotence ==
    [][\A s \in Ids :
        /\ MoveToFront(s) =>
               /\ (InCollection(s) /\ strands[Len(strands)] = s) => strands' = strands
               /\ move_strand_to_front(Cur', s).strands = strands'
        /\ MoveToBack(s) =>
               /\ (InCollection(s) /\ strands[1] = s) => strands' = strands
               /\ move_strand_to_back(Cur', s).strands = strands'
      ]_vars

\* a strand drawn later stands first after a moveToBack
C17_Witness ==
    /\ last.op = "back"
    /\ Len(strands) = 3
    /\ strands[1] > strands[2]

\* C18. renumberLayerNames result: afterwards every strand of the list is named
\* "{set_number}_{r}", r its 1-based rank among the strands of its set number
\* in list order; set numbers, order, colours and selection are unchanged, and
\* a second call changes nothing.
C18_RenumberLayerNames ==
    [][UpdateLayerNames =>
        /\ \A i \in DOMAIN strands :
              LET sn == obj[strands[i]].set_number
                  r == Cardinality({j \in 1..i : obj[strands[j]].set_number = sn})
              IN /\ obj'[strands[i]].layer_name = Str(sn) \o <<r>>
                 /\ obj'[strands[i]].set_number = sn
        /\ strands' = strands
        /\ strand_colors' = strand_colors
        /\ selected_strand' = selected_strand
        /\ selected_strand_index' = selected_strand_index
        /\ update_layer_names(Cur').obj = obj'
      ]_vars

\* names were recomputed for a set whose later-drawn strand stands before an
\* earlier one
C18_Witness ==
    /\ last.op = "rename"
    /\ \E s, t \in Range(strands) :
          /\ obj[s].set_number = obj[t].set_number
          /\ s > t
          /\ IndexOf(strands, s) < IndexOf(strands, t)
          /\ obj[s].layer_name[2] = 1
          /\ obj[t].layer_name[2] = 2

\* C19. Selection after creation: after createStrand(s) of a strand that is not
\* an AttachedStrand, s is the selected strand; after createStrand(s) of an
\* AttachedStrand the selection is what it was.
C19_SelectionAfterCreation ==
    [][last'.op = "create" =>
        LET s == last'.strand
        IN IF IsAttached(obj', s)
           THEN /\ selected_strand' = selected_strand
                /\ selected_strand_index' = selected_strand_index
           ELSE selected_strand' = s
      ]_vars

\* C20. No dangling parents: every AttachedStrand of the list has its parent in
\* the list.
C20_NoDanglingParents ==
    \A a \in Range(strands) :
        IsAttached(obj, a) => InCollection(obj[a].parent)

\* C21. Selection index consistency: selected_strand is none exactly when
\* selected_strand_index is none, and otherwise the strand at position
\* selected_strand_index of the list is selected_strand.
C21_SelectionIndexConsistency ==
    /\ (selected_strand = None) <=> (selected_strand_index = NoIndex)
    /\ selected_strand # None =>
          /\ selected_strand_index >= 0
          /\ selected_strand_index < Len(strands)
          /\ strands[selected_strand_index + 1] = selected_strand

\* C22. Main-strand deletion removes nothing unrelated: when removeStrand
\* deletes the strand named "n_1", every strand it removes had set number n or
\* is a masked strand with a constituent of set number n.
C22_MainDeletionRemovesOnlyRelated ==
    [][\A s \in Ids : MainRemoval(s) =>
        LET n == obj[s].layer_name[1]
        IN \A t \in Range(strands) :
              ~Contains(strands', t) =>
                  \/ obj[t].set_number = <<n>>
                  \/ /\ IsMasked(obj, t)
                     /\ \/ obj[obj[t].first_selected_strand].set_number = <<n>>
                        \/ obj[obj[t].second_selected_strand].set_number = <<n>>
      ]_vars

\* C23. Deleting a mask is local: removeStrand on a masked strand of the list
\* removes that mask and nothing else, and changes no set number, no layer
\* name and no key of the colour mapping.
C23_MaskDeletionLocal ==
    [][\A m \in Ids :
        (/\ last'.op = "remove" /\ last'.strand = m
         /\ InCollection(m)
         /\ IsMasked(obj, m))
        => /\ strands' = Without(strands, m)
           /\ \A t \in Range(strands) \ {m} :
                 /\ obj'[t].set_number = obj[t].set_number
                 /\ obj'[t].layer_name = obj[t].layer_name
           /\ DictKeys(strand_colors') = DictKeys(strand_colors)
      ]_vars

\* C24. Colour consistency: every plain or attached strand of the list has a
\* set number that is a key of the colour mapping, and the colour stored for it.
C24_ColorConsistency ==
    \A s \in Range(strands) :
        ~IsMasked(obj, s) =>
            /\ HasKey(strand_colors, obj[s].set_number)
            /\ obj[s].color = DictGet(strand_colors, obj[s].set_number)

====
